---- MODULE Spec2Model ----
(***************************************************************************)
(* Model of compass-pal-pro: the location_logs and predictions tables,    *)
(* the predict-location edge function                                      *)
(* (supabase/functions/predict-location/index.ts), the send-sos edge       *)
(* function, and of the client the dashboard's clustering, the useLocation *)
(* hook and the SOS page.                                                  *)
(*                                                                         *)
(* Strings are sequences of one-character strings, so that toLowerCase and *)
(* trim are computed character by character.  Fractions (confidence, mean  *)
(* coordinates) are pairs <<numerator, denominator>> with a positive       *)
(* denominator, compared by cross-multiplication.  Coordinates are         *)
(* integers counting 0.00001 degree.                                       *)
(***************************************************************************)
EXTENDS Integers, Sequences, FiniteSets, TLC

VARIABLES location_logs, predictions, request, fetched, response, io,
          tiersRun, nCalls,
          sos_request, emailPromises, outbox, sos_response,
          inflight, dashboard, hook, geolocation, sosPage

vars == <<location_logs, predictions, request, fetched, response, io,
          tiersRun, nCalls, sos_request, emailPromises, outbox, sos_response,
          inflight, dashboard, hook, geolocation, sosPage>>

\* the state of the client's components
clientVars == <<dashboard, hook, geolocation, sosPage>>

\* the state of the send-sos function
sosVars == <<sos_request, emailPromises, outbox, sos_response>>

\* the tables and the state of the predict-location function
predictVars == <<location_logs, predictions, request, fetched, response, io,
                 tiersRun, nCalls, inflight>>

(***************************************************************************)
(* Bounds of the exploration.                                              *)
(***************************************************************************)
MaxLogs == 4
MaxStored == 3
MaxCalls == 2
MaxContacts == 3
MaxShared == 5
MaxInflight == 2
MaxExcess == 2
MaxOld == 3
MaxNew == 2
MaxPoints == 5
MaxWatches == 3

(***************************************************************************)
(* JavaScript values.                                                      *)
(***************************************************************************)
Null == <<"NULL">>

Truthy(s) == s # Null /\ s # <<>>

Upper == <<"A","B","C","D","E","F","G","H","I","J","K","L","M",
           "N","O","P","Q","R","S","T","U","V","W","X","Y","Z">>

Lower == <<"a","b","c","d","e","f","g","h","i","j","k","l","m",
           "n","o","p","q","r","s","t","u","v","w","x","y","z">>

WhiteSpace == {" ", "\t", "\n"}

Digits == <<"0","1","2","3","4","5","6","7","8","9">>

LowerOf == [c \in {Upper[i] : i \in 1..Len(Upper)} |->
              Lower[CHOOSE i \in 1..Len(Upper) : Upper[i] = c]]

ToLowerChar(c) == IF c \in DOMAIN LowerOf THEN LowerOf[c] ELSE c

ToLowerCase(s) == [i \in 1..Len(s) |-> ToLowerChar(s[i])]

RECURSIVE TrimStart(_)
TrimStart(s) ==
  IF s # <<>> /\ Head(s) \in WhiteSpace THEN TrimStart(Tail(s)) ELSE s

RECURSIVE TrimEnd(_)
TrimEnd(s) ==
  IF s # <<>> /\ s[Len(s)] \in WhiteSpace
  THEN TrimEnd(SubSeq(s, 1, Len(s) - 1))
  ELSE s

Trim(s) == TrimEnd(TrimStart(s))

Normalize_untrimmed(label) == ToLowerCase(label)

\* log.label!.toLowerCase().trim()
Normalize(label) == Trim(ToLowerCase(label))

(***************************************************************************)
(* Fractions.                                                              *)
(***************************************************************************)
Frac(n, d) == <<n, d>>

FracLeq(a, b) == a[1] * b[2] <= b[1] * a[2]

FracEq(a, b) == a[1] * b[2] = b[1] * a[2]

\* Math.min(a, b)
MathMin(a, b) == IF FracLeq(a, b) THEN a ELSE b

(***************************************************************************)
(* A JavaScript object used as a dictionary: the keys in insertion order   *)
(* and the value of each key.  Object.keys / Object.entries enumerate the  *)
(* canonical array-index keys first, in ascending numeric order, and then  *)
(* the other string keys in insertion order.                               *)
(***************************************************************************)
EmptyObj == [order |-> <<>>, map |-> <<>>]

Has(o, k) == k \in DOMAIN o.map

Put(o, k, v) ==
  [order |-> IF Has(o, k) THEN o.order ELSE Append(o.order, k),
   map   |-> [x \in (DOMAIN o.map) \cup {k} |-> IF x = k THEN v ELSE o.map[x]]]

DigitVal(c) == (CHOOSE i \in 1..10 : Digits[i] = c) - 1

\* order of two digit strings without leading zeros by numeric value
RECURSIVE DigitsLeq(_, _)
DigitsLeq(a, b) ==
  IF Len(a) # Len(b) THEN Len(a) < Len(b)
  ELSE IF a = <<>> THEN TRUE
  ELSE IF Head(a) # Head(b) THEN DigitVal(Head(a)) < DigitVal(Head(b))
  ELSE DigitsLeq(Tail(a), Tail(b))

\* 2^32 - 2, the largest array index
MaxArrayIndex == <<"4","2","9","4","9","6","7","2","9","4">>

IsArrayIndex(k) ==
  /\ Len(k) >= 1
  /\ \A i \in 1..Len(k) : \E j \in 1..10 : Digits[j] = k[i]
  /\ (Len(k) > 1 => k[1] # "0")
  /\ DigitsLeq(k, MaxArrayIndex)

RECURSIVE SortIndexKeys(_)
SortIndexKeys(S) ==
  IF S = {} THEN <<>>
  ELSE LET m == CHOOSE k \in S : \A j \in S : DigitsLeq(k, j)
       IN  <<m>> \o SortIndexKeys(S \ {m})

ObjectKeys(o) ==
  SortIndexKeys({o.order[i] : i \in {j \in 1..Len(o.order) : IsArrayIndex(o.order[j])}})
    \o SelectSeq(o.order, LAMBDA k : ~IsArrayIndex(k))

\* for (const [label, count] of Object.entries(counts)) if (count > maxCount) ...
RECURSIVE MaxEntryFrom(_, _, _)
MaxEntryFrom(counts, keys, acc) ==
  IF keys = <<>> THEN acc
  ELSE LET k == Head(keys)
       IN  MaxEntryFrom(counts, Tail(keys),
             IF counts.map[k] > acc.maxCount
             THEN [maxCount |-> counts.map[k], maxLabel |-> k]
             ELSE acc)

MaxEntry(counts, init) ==
  MaxEntryFrom(counts, ObjectKeys(counts), [maxCount |-> 0, maxLabel |-> init])

\* Object.values(nextOptions).reduce((s, c) => s + c, 0)
RECURSIVE SumValues(_, _)
SumValues(o, keys) ==
  IF keys = <<>> THEN 0 ELSE o.map[Head(keys)] + SumValues(o, Tail(keys))

(***************************************************************************)
(* Collaborators: the auth service and the two tables.                     *)
(***************************************************************************)
NoHeader == "<absent>"

NoUser == "<none>"

Users == {"u1", "u2"}

\* authHeader.replace("Bearer ", "")
BearerToken(authHeader) ==
  CASE authHeader = "Bearer t-u1" -> "t-u1"
    [] authHeader = "Bearer t-u2" -> "t-u2"
    [] authHeader = "Bearer expired" -> "expired"
    [] OTHER -> authHeader

GetUser_lenient(token) ==
  CASE token = "t-u2" -> "u2"
    [] OTHER -> "u1"

\* supabase.auth.getUser(token): the user of a live session, or an error
GetUser(token) ==
  CASE token = "t-u1" -> "u1"
    [] token = "t-u2" -> "u2"
    [] OTHER -> NoUser

QueryLimit == 1000

MinLabeled == 2

MinSamples_two == MinLabeled

MinSamples == 3

\* a select without the user_id filter
SelectLogs_everyone(table, userId) ==
  LET rows == [i \in 1..Len(table) |->
                 [latitude |-> table[i].latitude, longitude |-> table[i].longitude,
                  hour |-> table[i].hour, day |-> table[i].day, label |-> table[i].label]]
  IN  IF Len(rows) <= QueryLimit THEN rows ELSE SubSeq(rows, 1, QueryLimit)

\* .select("latitude, longitude, hour, day, label, created_at")
\* .eq("user_id", user.id).order("created_at", {ascending: true}).limit(1000)
SelectLogs(table, userId) ==
  LET own  == SelectSeq(table, LAMBDA r : r.user_id = userId)
      rows == [i \in 1..Len(own) |->
                 [latitude |-> own[i].latitude, longitude |-> own[i].longitude,
                  hour |-> own[i].hour, day |-> own[i].day, label |-> own[i].label]]
  IN  IF Len(rows) <= QueryLimit THEN rows ELSE SubSeq(rows, 1, QueryLimit)

\* locationLogs.filter((l) => l.label)
LabeledLogs(locationLogs) == SelectSeq(locationLogs, LAMBDA l : Truthy(l.label))

(***************************************************************************)
(* The transition model and the label -> location accumulators, built by   *)
(* the loop over labeledLogs.                                              *)
(***************************************************************************)
AddLocation(labelLocations, lbl, log) ==
  LET old == IF Has(labelLocations, lbl) THEN labelLocations.map[lbl]
             ELSE [totalLat |-> 0, totalLng |-> 0, count |-> 0]
  IN  Put(labelLocations, lbl,
          [totalLat |-> old.totalLat + log.latitude,
           totalLng |-> old.totalLng + log.longitude,
           count    |-> old.count + 1])

\* a transition table that records a pair without counting it
AddTransition_uncounted(transitions, lbl, nextLabel) ==
  LET row == IF Has(transitions, lbl) THEN transitions.map[lbl] ELSE EmptyObj
  IN  Put(transitions, lbl, Put(row, nextLabel, Len(<<nextLabel>>)))

AddTransition(transitions, lbl, nextLabel) ==
  LET row == IF Has(transitions, lbl) THEN transitions.map[lbl] ELSE EmptyObj
      old == IF Has(row, nextLabel) THEN row.map[nextLabel] ELSE 0
  IN  Put(transitions, lbl, Put(row, nextLabel, old + 1))

RECURSIVE BuildModelFrom(_, _, _)
BuildModelFrom(labeledLogs, i, acc) ==
  IF i > Len(labeledLogs) THEN acc
  ELSE LET lbl == Normalize(labeledLogs[i].label)
           locs == AddLocation(acc.labelLocations, lbl, labeledLogs[i])
           trs == IF i < Len(labeledLogs)
                  THEN AddTransition(acc.transitions, lbl, Normalize(labeledLogs[i + 1].label))
                  ELSE acc.transitions
       IN  BuildModelFrom(labeledLogs, i + 1, [transitions |-> trs, labelLocations |-> locs])

BuildModel(labeledLogs) ==
  BuildModelFrom(labeledLogs, 1, [transitions |-> EmptyObj, labelLocations |-> EmptyObj])

\* labelCounts[lbl] = (labelCounts[lbl] || 0) + 1 over a list of logs
RECURSIVE CountLabels(_, _)
CountLabels(logs, acc) ==
  IF logs = <<>> THEN acc
  ELSE LET lbl == Normalize(Head(logs).label)
           old == IF Has(acc, lbl) THEN acc.map[lbl] ELSE 0
       IN  CountLabels(Tail(logs), Put(acc, lbl, old + 1))

(***************************************************************************)
(* The three tiers.  Each takes and returns the handler's local variables  *)
(* predictedLabel, confidence, transitionCount; ran lists the tiers whose  *)
(* assignments executed.                                                   *)
(***************************************************************************)
CapTransition == Frac(95, 100)

CapTimeOfDay == Frac(85, 100)

CapGlobal_loose == Frac(85, 100)

CapGlobal == Frac(60, 100)

StartLocals ==
  [predictedLabel |-> Null, confidence |-> Frac(0, 1), transitionCount |-> 0, ran |-> <<>>]

Tier1(st, transitions, currentLabel) ==
  IF Truthy(currentLabel) /\ Has(transitions, Normalize(currentLabel))
  THEN LET nextOptions == transitions.map[Normalize(currentLabel)]
           total == SumValues(nextOptions, ObjectKeys(nextOptions))
           best == MaxEntry(nextOptions, <<>>)
       IN  [predictedLabel  |-> best.maxLabel,
            confidence      |-> MathMin(CapTransition, Frac(best.maxCount, total)),
            transitionCount |-> total,
            ran             |-> Append(st.ran, 1)]
  ELSE st

RelevantLogs(labeledLogs, currentHour, currentDay) ==
  LET nextHour == (currentHour + 1) % 24
      Abs(x) == IF x < 0 THEN -x ELSE x
  IN  SelectSeq(labeledLogs, LAMBDA l : l.day = currentDay /\ Abs(l.hour - nextHour) <= 1)

Tier2(st, labeledLogs, currentHour, currentDay) ==
  LET relevantLogs == RelevantLogs(labeledLogs, currentHour, currentDay)
  IN  IF ~Truthy(st.predictedLabel) /\ Len(relevantLogs) > 0
      THEN LET best == MaxEntry(CountLabels(relevantLogs, EmptyObj), st.predictedLabel)
           IN  [predictedLabel  |-> best.maxLabel,
                confidence      |-> MathMin(CapTimeOfDay, Frac(best.maxCount, Len(relevantLogs))),
                transitionCount |-> Len(relevantLogs),
                ran             |-> Append(st.ran, 2)]
      ELSE st

Tier3(st, labeledLogs) ==
  IF ~Truthy(st.predictedLabel)
  THEN LET best == MaxEntry(CountLabels(labeledLogs, EmptyObj), st.predictedLabel)
       IN  [predictedLabel  |-> best.maxLabel,
            confidence      |-> MathMin(CapGlobal, Frac(best.maxCount, Len(labeledLogs))),
            transitionCount |-> Len(labeledLogs),
            ran             |-> Append(st.ran, 3)]
  ELSE st

Cascade(labeledLogs, transitions, currentHour, currentDay, currentLabel) ==
  Tier3(Tier2(Tier1(StartLocals, transitions, currentLabel),
              labeledLogs, currentHour, currentDay),
        labeledLogs)

Unknown == <<"U","n","k","n","o","w","n">>

\* predictedLabel || "Unknown"
LabelOrUnknown(predictedLabel) == IF Truthy(predictedLabel) THEN predictedLabel ELSE Unknown

\* locData ? locData.totalLat / locData.count : 0
PredCoords(labelLocations, predictedLabel) ==
  IF Truthy(predictedLabel) /\ Has(labelLocations, predictedLabel)
  THEN [lat |-> Frac(labelLocations.map[predictedLabel].totalLat,
                     labelLocations.map[predictedLabel].count),
        lng |-> Frac(labelLocations.map[predictedLabel].totalLng,
                     labelLocations.map[predictedLabel].count)]
  ELSE [lat |-> Frac(0, 1), lng |-> Frac(0, 1)]

AvailableTransitions(transitions, labelLocations, currentLabel) ==
  IF Truthy(currentLabel) /\ Has(transitions, Normalize(currentLabel))
  THEN LET row == transitions.map[Normalize(currentLabel)]
           keys == ObjectKeys(row)
       IN  [i \in 1..Len(keys) |->
              [label |-> keys[i], count |-> row.map[keys[i]],
               coords |-> IF Has(labelLocations, keys[i])
                          THEN [lat |-> Frac(labelLocations.map[keys[i]].totalLat,
                                             labelLocations.map[keys[i]].count),
                                lng |-> Frac(labelLocations.map[keys[i]].totalLng,
                                             labelLocations.map[keys[i]].count)]
                          ELSE Null]]
  ELSE <<>>

\* the label-aware result: the row to insert and the response body
LabelAwarePrediction(locationLogs, currentHour, currentDay, currentLabel) ==
  LET labeledLogs == LabeledLogs(locationLogs)
      model == BuildModel(labeledLogs)
      st == Cascade(labeledLogs, model.transitions, currentHour, currentDay, currentLabel)
      pred == PredCoords(model.labelLocations, st.predictedLabel)
  IN  [prediction |-> [latitude |-> pred.lat, longitude |-> pred.lng,
                       confidence |-> st.confidence,
                       label |-> LabelOrUnknown(st.predictedLabel),
                       basedOnDataPoints |-> st.transitionCount],
       totalDataPoints |-> Len(locationLogs),
       labeledDataPoints |-> Len(labeledLogs),
       availableLabels |-> ObjectKeys(model.labelLocations),
       transitions |-> AvailableTransitions(model.transitions, model.labelLocations, currentLabel),
       ran |-> st.ran]

(***************************************************************************)
(* timeBasedPrediction: the fallback used with fewer than two labeled logs. *)
(***************************************************************************)
CapHourGroup == Frac(8, 10)

CapMostVisited_loose == Frac(7, 10)

CapMostVisited == Frac(6, 10)

RECURSIVE IntToStr(_)
IntToStr(n) ==
  IF n < 10 THEN <<Digits[n + 1]>> ELSE IntToStr(n \div 10) \o <<Digits[(n % 10) + 1]>>

\* `~${nextHour}:00`
HourLabel(nextHour) == <<"~">> \o IntToStr(nextHour) \o <<":","0","0">>

MostVisited == <<"M","o","s","t"," ","v","i","s","i","t","e","d">>

\* x.toFixed(4) of a coordinate counted in 0.00001 degree: the sign and the
\* magnitude rounded to 0.0001 degree, halves rounded up
ToFixed4(x) ==
  LET mag == IF x < 0 THEN -x ELSE x
  IN  [neg |-> x < 0, n |-> (mag + 5) \div 10]

\* `${log.latitude.toFixed(4)},${log.longitude.toFixed(4)}`
CellKey(log) == <<ToFixed4(log.latitude), ToFixed4(log.longitude)>>

RECURSIVE LocationCounts(_, _)
LocationCounts(logs, acc) ==
  IF logs = <<>> THEN acc
  ELSE LET k == CellKey(Head(logs))
           old == IF Has(acc, k) THEN acc.map[k]
                  ELSE [lat |-> Head(logs).latitude, lng |-> Head(logs).longitude, count |-> 0]
       IN  LocationCounts(Tail(logs), Put(acc, k, [old EXCEPT !.count = old.count + 1]))

\* Object.values(locationCounts).reduce((a, b) => (a.count > b.count ? a : b))
RECURSIVE ReduceBest(_, _)
ReduceBest(a, rest) ==
  IF rest = <<>> THEN a
  ELSE ReduceBest(IF a.count > Head(rest).count THEN a ELSE Head(rest), Tail(rest))

RECURSIVE SumField(_, _)
SumField(logs, lat) ==
  IF logs = <<>> THEN 0
  ELSE (IF lat THEN Head(logs).latitude ELSE Head(logs).longitude) + SumField(Tail(logs), lat)

TimeBasedPrediction(locationLogs, currentHour, currentDay) ==
  LET nextHour == (currentHour + 1) % 24
      matches == SelectSeq(locationLogs, LAMBDA l : l.day = currentDay /\ l.hour = nextHour)
      n == Len(locationLogs)
      prediction ==
        IF Len(matches) > 0
        THEN [latitude |-> Frac(SumField(matches, TRUE), Len(matches)),
              longitude |-> Frac(SumField(matches, FALSE), Len(matches)),
              confidence |-> MathMin(CapHourGroup, Frac(50 * Len(matches) + 3 * n, 10 * n)),
              label |-> HourLabel(nextHour),
              basedOnDataPoints |-> Len(matches)]
        ELSE LET counts == LocationCounts(locationLogs, EmptyObj)
                 values == [i \in 1..Len(counts.order) |-> counts.map[counts.order[i]]]
                 best == ReduceBest(Head(values), Tail(values))
             IN  [latitude |-> Frac(best.lat, 1),
                  longitude |-> Frac(best.lng, 1),
                  confidence |-> MathMin(CapMostVisited, Frac(2 * best.count, n)),
                  label |-> MostVisited,
                  basedOnDataPoints |-> best.count]
  IN  [prediction |-> prediction,
       totalDataPoints |-> n,
       labeledDataPoints |-> 0,
       availableLabels |-> <<>>,
       transitions |-> <<>>,
       ran |-> IF Len(matches) > 0 THEN <<4>> ELSE <<5>>]

(***************************************************************************)
(* The request handler of predict-location, as one step.  req is the       *)
(* request (authHeader and the body's hour, day, currentLabel, the clock   *)
(* standing in for absent fields).  The collaborators answer as they       *)
(* choose: the select reports an error or returns the rows, the insert     *)
(* succeeds, reports an error, or throws.                                  *)
(***************************************************************************)
NoResponse == [status |-> 0]

ErrorResponse(st, msg) == [status |-> st, body |-> [error |-> msg]]

PredictionRow(userId, p) ==
  [user_id |-> userId, predicted_lat |-> p.latitude, predicted_lng |-> p.longitude,
   confidence |-> p.confidence, label |-> p.label]

SuccessBody(r) ==
  [prediction |-> r.prediction, totalDataPoints |-> r.totalDataPoints,
   labeledDataPoints |-> r.labeledDataPoints, availableLabels |-> r.availableLabels,
   transitions |-> r.transitions]

\* what the handler answers when the awaited insert throws: the label-aware
\* path is inside the try block, the promise returned by timeBasedPrediction
\* is not awaited there and rejects the handler itself
InsertThrows(labelAware) ==
  IF labelAware THEN ErrorResponse(500, "insert failed")
  ELSE [status |-> 500, body |-> [text |-> "Internal Server Error"]]

InsertOutcomes == {"ok", "error", "throws"}

InsertPrediction_replace(table, row) == <<row>>

\* an insert that keeps one prediction per user
InsertPrediction_upsert(table, row) ==
  Append(SelectSeq(table, LAMBDA r : r.user_id # row.user_id), row)

\* supabase.from("predictions").insert({...}) accepted by the store
InsertPrediction(table, row) == Append(table, row)

\* a response that leaves the predictions table alone
Reply(resp, calls, rows) ==
  /\ response' = resp
  /\ io' = calls
  /\ fetched' = rows
  /\ tiersRun' = <<>>
  /\ UNCHANGED predictions

\* the handler from the select's answer on
Serve(req, userId) ==
  LET locationLogs == SelectLogs(location_logs, userId)
      labelAware == Len(LabeledLogs(locationLogs)) >= MinLabeled
      r == IF labelAware
           THEN LabelAwarePrediction(locationLogs, req.hour, req.day, req.currentLabel)
           ELSE TimeBasedPrediction(locationLogs, req.hour, req.day)
  IN  IF Len(locationLogs) < MinSamples
      THEN Reply([status |-> 400,
                  body |-> [error |-> "Not enough location data",
                            dataPoints |-> Len(locationLogs)]],
                 <<<<"auth.getUser", "ok">>, <<"location_logs.select", "ok">>>>,
                 locationLogs)
      ELSE \E outcome \in InsertOutcomes :
             /\ io' = <<<<"auth.getUser", "ok">>, <<"location_logs.select", "ok">>,
                      <<"predictions.insert", outcome>>>>
             /\ fetched' = locationLogs
             /\ tiersRun' = r.ran
             /\ predictions' = IF outcome = "ok"
                               THEN InsertPrediction(predictions, PredictionRow(userId, r.prediction))
                               ELSE predictions
             /\ response' = IF outcome = "throws"
                            THEN InsertThrows(labelAware)
                            ELSE [status |-> 200, body |-> SuccessBody(r)]

Handler(req) ==
  /\ request' = req
  /\ nCalls' = nCalls + 1
  /\ UNCHANGED location_logs
  /\ UNCHANGED <<sosVars, inflight, clientVars>>
  /\ IF req.authHeader = NoHeader
     THEN Reply(ErrorResponse(401, "No authorization header"), <<>>, <<>>)
     ELSE IF GetUser(BearerToken(req.authHeader)) = NoUser
     THEN Reply(ErrorResponse(401, "Unauthorized"), <<<<"auth.getUser", "error">>>>, <<>>)
     ELSE \/ Reply(ErrorResponse(500, "Failed to fetch location logs"),
                   <<<<"auth.getUser", "ok">>, <<"location_logs.select", "error">>>>, <<>>)
          \/ Serve(req, GetUser(BearerToken(req.authHeader)))

(***************************************************************************)
(* The send-sos edge function.  The handler runs up to its first await of  *)
(* the provider (every per-contact callback has then issued its request),  *)
(* and resumes when Promise.all settles: at the first rejection, or when   *)
(* the last promise is fulfilled.                                          *)
(***************************************************************************)
NoSosRequest == [apiKey |-> FALSE, contactsGiven |-> FALSE, contacts |-> <<>>]

Pending == [state |-> "pending"]

Rejected == [state |-> "rejected"]

Fulfilled(v) == [state |-> "fulfilled", value |-> v]

\* !contacts || contacts.length === 0
NoContacts(body) == ~body.contactsGiven \/ Len(body.contacts) = 0

\* a filter that keeps every contact
EmailContacts_all(contacts) == SelectSeq(contacts, LAMBDA c : TRUE)

\* contacts.filter((c) => c.email)
EmailContacts(contacts) == SelectSeq(contacts, LAMBDA c : Truthy(c.email))

\* a dispatch that is never refused for want of an email address
NoQualifyingContacts_never(emailContacts) == Len(emailContacts) < 0

\* emailContacts.length === 0
NoQualifyingContacts(emailContacts) == Len(emailContacts) = 0

\* the outcomes of one request to the provider: response.ok, !response.ok,
\* or fetch (or response.text) throwing
FetchOutcomes == {"ok", "not ok", "throws"}

ProviderError == "provider error text"

\* what the per-contact callback returns or throws after its await
AfterFetch(contact, outcome) ==
  IF outcome = "ok" THEN Fulfilled([email |-> contact.email, success |-> TRUE])
  ELSE IF outcome = "not ok"
  THEN Fulfilled([email |-> contact.email, success |-> FALSE, error |-> ProviderError])
  ELSE Rejected

\* results.filter((r) => r.success).length
SuccessCount(results) == Len(SelectSeq(results, LAMBDA r : r.success))

Aggregate(emailContacts, results) ==
  [status |-> 200,
   body |-> [success |-> TRUE, sent |-> SuccessCount(results),
             total |-> Len(emailContacts), results |-> results]]

\* await Promise.all(emailPromises) and what follows it: nothing while a
\* promise is pending and none is rejected, the catch block once one is
\* rejected, the aggregate response once all are fulfilled
PromiseAll(emailContacts, promises) ==
  IF \E i \in 1..Len(promises) : promises[i] = Rejected
  THEN ErrorResponse(500, "fetch failed")
  ELSE IF \E i \in 1..Len(promises) : promises[i] = Pending
  THEN NoResponse
  ELSE Aggregate(emailContacts, [i \in 1..Len(promises) |-> promises[i].value])

SosReply(resp) ==
  /\ sos_response' = resp
  /\ emailPromises' = <<>>
  /\ outbox' = <<>>

\* the handler from the request to the await of Promise.all
SendSos(req) ==
  LET emailContacts == EmailContacts(req.contacts)
      promises == [i \in 1..Len(emailContacts) |-> Pending]
  IN  /\ sos_request = NoSosRequest
      /\ sos_response = NoResponse
      /\ sos_request' = req
      /\ UNCHANGED <<predictVars, clientVars>>
      /\ IF ~req.apiKey
         THEN SosReply(ErrorResponse(500, "RESEND_API_KEY is not configured"))
         ELSE IF NoContacts(req)
         THEN SosReply(ErrorResponse(400, "No contacts provided"))
         ELSE IF NoQualifyingContacts(emailContacts)
         THEN SosReply(ErrorResponse(400, "No contacts with email addresses"))
         ELSE /\ outbox' = [i \in 1..Len(emailContacts) |-> [to |-> <<emailContacts[i].email>>]]
              /\ emailPromises' = promises
              /\ sos_response' = PromiseAll(emailContacts, promises)

\* the provider answers the request for contact i, or the request fails; the
\* handler resumes if Promise.all settles and it has not answered yet
FetchSettles(i, outcome) ==
  LET emailContacts == EmailContacts(sos_request.contacts)
      promises == [emailPromises EXCEPT ![i] = AfterFetch(emailContacts[i], outcome)]
  IN  /\ i \in 1..Len(emailPromises)
      /\ emailPromises[i] = Pending
      /\ emailPromises' = promises
      /\ sos_response' = IF sos_response = NoResponse
                         THEN PromiseAll(emailContacts, promises)
                         ELSE sos_response
      /\ UNCHANGED <<sos_request, outbox>>
      /\ UNCHANGED <<predictVars, clientVars>>

SosIdle ==
  /\ sos_request = NoSosRequest
  /\ emailPromises = <<>>
  /\ outbox = <<>>
  /\ sos_response = NoResponse

(***************************************************************************)
(* The handler as concurrent executions: an execution runs from one await  *)
(* of the store to the next; executions of different requests interleave   *)
(* at these awaits.                                                        *)
(***************************************************************************)
CallIds == 1..MaxInflight

IdleCall == [pc |-> "idle"]

NoneInFlight == inflight = [c \in CallIds |-> IdleCall]

Finished(req, resp, rows, outcome, overlapped) ==
  [pc |-> "done", req |-> req, response |-> resp, locationLogs |-> rows,
   inserted |-> outcome, overlapped |-> overlapped]

\* the request arrives; the execution runs to the await of the select
Receive(c, req) ==
  /\ inflight[c].pc = "idle"
  /\ inflight' = [inflight EXCEPT ![c] =
       IF req.authHeader = NoHeader
       THEN Finished(req, ErrorResponse(401, "No authorization header"), <<>>, "none", FALSE)
       ELSE IF GetUser(BearerToken(req.authHeader)) = NoUser
       THEN Finished(req, ErrorResponse(401, "Unauthorized"), <<>>, "none", FALSE)
       ELSE [pc |-> "select", req |-> req]]
  /\ UNCHANGED <<location_logs, predictions, request, fetched, response, io, tiersRun, nCalls>>
  /\ UNCHANGED <<sosVars, clientVars>>

\* the select answers; the execution computes the prediction and runs to the
\* await of the insert
SelectAnswers(c, ok) ==
  LET req == inflight[c].req
      locationLogs == SelectLogs(location_logs, GetUser(BearerToken(req.authHeader)))
  IN  /\ inflight[c].pc = "select"
      /\ inflight' = [inflight EXCEPT ![c] =
           IF ~ok
           THEN Finished(req, ErrorResponse(500, "Failed to fetch location logs"), <<>>,
                         "none", FALSE)
           ELSE IF Len(locationLogs) < MinSamples
           THEN Finished(req, [status |-> 400,
                               body |-> [error |-> "Not enough location data",
                                         dataPoints |-> Len(locationLogs)]],
                         locationLogs, "none", FALSE)
           ELSE [pc |-> "insert", req |-> req, locationLogs |-> locationLogs]]
      /\ UNCHANGED <<location_logs, predictions, request, fetched, response, io, tiersRun,
                     nCalls>>
      /\ UNCHANGED <<sosVars, clientVars>>

\* the insert answers; the execution responds
InsertAnswers(c, outcome) ==
  LET req == inflight[c].req
      locationLogs == inflight[c].locationLogs
      labelAware == Len(LabeledLogs(locationLogs)) >= MinLabeled
      r == IF labelAware
           THEN LabelAwarePrediction(locationLogs, req.hour, req.day, req.currentLabel)
           ELSE TimeBasedPrediction(locationLogs, req.hour, req.day)
      others == \E d \in CallIds \ {c} : inflight[d].pc \in {"select", "insert"}
  IN  /\ inflight[c].pc = "insert"
      /\ predictions' = IF outcome = "ok"
                        THEN InsertPrediction(predictions,
                               PredictionRow(GetUser(BearerToken(req.authHeader)), r.prediction))
                        ELSE predictions
      /\ inflight' = [inflight EXCEPT ![c] =
           Finished(req,
                    IF outcome = "throws" THEN InsertThrows(labelAware)
                    ELSE [status |-> 200, body |-> SuccessBody(r)],
                    locationLogs, outcome, others)]
      /\ UNCHANGED <<location_logs, request, fetched, response, io, tiersRun, nCalls>>
      /\ UNCHANGED <<sosVars, clientVars>>

(***************************************************************************)
(* The dashboard: the newest samples of the user, clustered by proximity.  *)
(***************************************************************************)
\* threshold = 0.001 degree, in units of 0.00001 degree
Threshold == 100

FrequentShown == 4

DashboardLimit == 100

NoDashboard == [rendered |-> FALSE]

Abs(x) == IF x < 0 THEN -x ELSE x

\* a comparison against half the threshold
Matches_tight(c, log) ==
  /\ Abs(c.lat - log.latitude) < Threshold \div 2
  /\ Abs(c.lng - log.longitude) < Threshold \div 2

\* Math.abs(c.lat - log.latitude) < threshold && Math.abs(c.lng - log.longitude) < threshold
Matches(c, log) ==
  /\ Abs(c.lat - log.latitude) < Threshold
  /\ Abs(c.lng - log.longitude) < Threshold

\* clusters.find(...): the position of the first matching cluster, 0 if none
FindCluster(clusters, log) ==
  IF \E k \in 1..Len(clusters) : Matches(clusters[k], log)
  THEN CHOOSE k \in 1..Len(clusters) :
         /\ Matches(clusters[k], log)
         /\ \A j \in 1..(k - 1) : ~Matches(clusters[j], log)
  ELSE 0

\* a clustering that moves the cluster to the sample it absorbs
AddToClusters_moving(clusters, log) ==
  LET k == FindCluster(clusters, log)
  IN  IF k # 0
      THEN [clusters EXCEPT ![k] = [lat |-> log.latitude, lng |-> log.longitude,
                                    count |-> clusters[k].count + 1]]
      ELSE Append(clusters, [lat |-> log.latitude, lng |-> log.longitude, count |-> 1])

\* the body of logs.forEach
AddToClusters(clusters, log) ==
  LET k == FindCluster(clusters, log)
  IN  IF k # 0
      THEN [clusters EXCEPT ![k].count = clusters[k].count + 1]
      ELSE Append(clusters, [lat |-> log.latitude, lng |-> log.longitude, count |-> 1])

RECURSIVE GetUniqueLocationsFrom(_, _)
GetUniqueLocationsFrom(logs, clusters) ==
  IF logs = <<>> THEN clusters
  ELSE GetUniqueLocationsFrom(Tail(logs), AddToClusters(clusters, Head(logs)))

GetUniqueLocations(logs) == GetUniqueLocationsFrom(logs, <<>>)

\* the place of c in a list sorted by b.count - a.count, equal counts
\* keeping their order
InsertByCount(sorted, c) ==
  LET before == Cardinality({k \in 1..Len(sorted) : sorted[k].count >= c.count})
  IN  SubSeq(sorted, 1, before) \o <<c>> \o SubSeq(sorted, before + 1, Len(sorted))

\* .sort((a, b) => b.count - a.count)
RECURSIVE SortByCount(_, _)
SortByCount(clusters, sorted) ==
  IF clusters = <<>> THEN sorted
  ELSE SortByCount(Tail(clusters), InsertByCount(sorted, Head(clusters)))

\* .slice(0, 4)
Slice(list, n) == IF Len(list) <= n THEN list ELSE SubSeq(list, 1, n)

\* .eq("user_id", user.id).order("created_at", {ascending: false}).limit(100)
FetchLocationLogs(table, userId) ==
  LET own == SelectSeq(table, LAMBDA r : r.user_id = userId)
      newestFirst == [i \in 1..Len(own) |-> own[Len(own) + 1 - i]]
  IN  Slice(newestFirst, DashboardLimit)

\* the dashboard of a signed-in user after its fetch: uniqueLocations is the
\* array returned by getUniqueLocations, frequentLocations its sorted head
RenderDashboard(userId) ==
  LET locationLogs == FetchLocationLogs(location_logs, userId)
      uniqueLocations == GetUniqueLocations(locationLogs)
  IN  /\ dashboard' = [rendered |-> TRUE, locationLogs |-> locationLogs,
                       uniqueLocations |-> uniqueLocations,
                       frequentLocations |->
                         Slice(SortByCount(uniqueLocations, <<>>), FrequentShown)]
      /\ UNCHANGED <<predictVars, sosVars, hook, geolocation, sosPage>>

(***************************************************************************)
(* Writers of location_logs in the client.                                 *)
(***************************************************************************)
L_Home == <<"H","o","m","e">>

L_home_padded == <<" ","h","o","m","e"," ">>

L_HOME_padded == <<"H","O","M","E"," ">>

L_office == <<"o","f","f","i","c","e">>

L_seven == <<"7">>

L_blank == <<" ">>

\* Predictions.tsx logCurrentLocation(label): the row carries label.trim()
LogCurrentLocation(userId, label, pos, now) ==
  /\ Len(location_logs) < MaxStored
  /\ location_logs' = Append(location_logs,
        [user_id |-> userId, latitude |-> pos.latitude, longitude |-> pos.longitude,
         day |-> now.day, hour |-> now.hour, label |-> Trim(label)])
  /\ UNCHANGED <<predictions, request, fetched, response, io, tiersRun, nCalls>>
  /\ UNCHANGED <<sosVars, inflight, clientVars>>

\* a tracker that keeps the latest position by rewriting the newest row
SaveLocationToDb_overwrite(userId, pos, now) ==
  /\ Len(location_logs) < MaxStored
  /\ location_logs' =
       LET row == [user_id |-> userId, latitude |-> pos.latitude, longitude |-> pos.longitude,
                   day |-> now.day, hour |-> now.hour, label |-> Null]
       IN  IF location_logs = <<>> THEN <<row>>
           ELSE [location_logs EXCEPT ![Len(location_logs)] = row]
  /\ UNCHANGED <<predictions, request, fetched, response, io, tiersRun, nCalls>>
  /\ UNCHANGED <<sosVars, inflight, clientVars>>

\* useLocation saveLocationToDb(latitude, longitude): a row without label
SaveLocationToDb(userId, pos, now) ==
  /\ Len(location_logs) < MaxStored
  /\ location_logs' = Append(location_logs,
        [user_id |-> userId, latitude |-> pos.latitude, longitude |-> pos.longitude,
         day |-> now.day, hour |-> now.hour, label |-> Null])
  /\ UNCHANGED <<predictions, request, fetched, response, io, tiersRun, nCalls>>
  /\ UNCHANGED <<sosVars, inflight, clientVars>>

(***************************************************************************)
(* The useLocation hook and the platform's position watches.  A step is a  *)
(* tap handler or the continuation of an await, together with the render   *)
(* that commits its state updates and runs the cleanup of the effect on    *)
(* [watchId, isNative].                                                    *)
(***************************************************************************)
NoWatch == 0

\* useState(false), useState(null); lastCall records the last of
\* startTracking and stopTracking that was called
UseLocation(native) ==
  [isNative |-> native, isTracking |-> FALSE, watchId |-> NoWatch, lastCall |-> "none"]

\* no watch registered, no registration under way, no id handed out
NoWatches == [watches |-> {}, registering |-> 0, issued |-> 0]

\* clearWatch({id}) / clearWatch(id)
ClearWatch(watches, id) == watches \ {id}

\* if (watchId !== null) clearWatch(watchId): the body of stopTracking's
\* test and of the effect's cleanup, which runs with the watchId of the
\* render that is replaced
Cleanup(watches, watchId) ==
  IF watchId # NoWatch THEN ClearWatch(watches, watchId) ELSE watches

\* watchPosition registers a watch under a fresh id; then setWatchId(id),
\* setIsTracking(true), and the render replaces the effect
WatchPosition(g, h) ==
  [g EXCEPT !.issued = g.issued + 1,
            !.watches = Cleanup(g.watches \cup {g.issued + 1}, h.watchId)]

NowTracking(h, id) == [h EXCEPT !.watchId = id, !.isTracking = TRUE]

\* startTracking: on the native platform the registration is started and
\* the function returns; in the browser the watch is registered at once
StartTracking ==
  /\ geolocation.issued + geolocation.registering < MaxWatches
  /\ IF hook.isNative
     THEN /\ geolocation' = [geolocation EXCEPT !.registering = geolocation.registering + 1]
          /\ hook' = [hook EXCEPT !.lastCall = "start"]
     ELSE /\ geolocation' = WatchPosition(geolocation, hook)
          /\ hook' = [NowTracking(hook, geolocation.issued + 1) EXCEPT !.lastCall = "start"]
  /\ UNCHANGED <<predictVars, sosVars, dashboard, sosPage>>

\* await Geolocation.watchPosition(...) resolves
WatchRegistered ==
  /\ hook.isNative
  /\ geolocation.registering > 0
  /\ geolocation' = [WatchPosition(geolocation, hook) EXCEPT
                       !.registering = geolocation.registering - 1]
  /\ hook' = NowTracking(hook, geolocation.issued + 1)
  /\ UNCHANGED <<predictVars, sosVars, dashboard, sosPage>>

\* checkPermissions, requestPermissions or watchPosition rejects: the catch
\* block sets the error message
RegistrationFails ==
  /\ hook.isNative
  /\ geolocation.registering > 0
  /\ geolocation' = [geolocation EXCEPT !.registering = geolocation.registering - 1]
  /\ UNCHANGED <<predictVars, sosVars, dashboard, hook, sosPage>>

\* stopTracking
StopTracking ==
  /\ geolocation' = [geolocation EXCEPT !.watches = Cleanup(geolocation.watches, hook.watchId)]
  /\ hook' = [hook EXCEPT !.watchId = NoWatch, !.isTracking = FALSE, !.lastCall = "stop"]
  /\ UNCHANGED <<predictVars, sosVars, dashboard, sosPage>>

\* onClick={isTracking ? stopTracking : startTracking}
ToggleTracking == IF hook.isTracking THEN StopTracking ELSE StartTracking

\* a registered watch reports a position: the callback saves a sample
PositionReported(userId, pos, now) ==
  /\ geolocation.watches # {}
  /\ SaveLocationToDb(userId, pos, now)

(***************************************************************************)
(* The SOS page.  sendSOSAlert runs to its await of the invocation; the    *)
(* function receives the request; the page resumes with the outcome.       *)
(***************************************************************************)
NoToast == "none"

ToastAddContact == "Please add at least one emergency contact first"

ToastSent == "Emergency alerts sent to all contacts!"

ToastFailed == "Failed to send alerts. Please try again."

\* the page with its contacts loaded
SosPage(contacts) ==
  [contacts |-> contacts, sendingAlert |-> FALSE, alertSent |-> FALSE,
   toast |-> NoToast, invoking |-> FALSE]

\* body.contacts: contacts.filter(c => c.email)
InvokeBody(contacts) == SelectSeq(contacts, LAMBDA c : Truthy(c.email))

\* sendSOSAlert up to the await of supabase.functions.invoke
SendSOSAlert ==
  /\ ~sosPage.invoking
  /\ sos_request = NoSosRequest
  /\ sosPage' = IF Len(sosPage.contacts) = 0
                THEN [sosPage EXCEPT !.toast = ToastAddContact]
                ELSE [sosPage EXCEPT !.sendingAlert = TRUE, !.invoking = TRUE]
  /\ UNCHANGED <<predictVars, sosVars, dashboard, hook, geolocation>>

\* the invocation reaches the function
InvokeArrives(apiKey) ==
  /\ sosPage.invoking
  /\ SendSos([apiKey |-> apiKey, contactsGiven |-> TRUE,
              contacts |-> InvokeBody(sosPage.contacts)])

\* error of the invocation: set for a response outside 2xx
InvokeError(resp) == resp.status < 200 \/ resp.status > 299

\* sendSOSAlert after the await: throw on error, else the "Alert Sent" state
AfterInvoke(page, resp) ==
  IF InvokeError(resp)
  THEN [page EXCEPT !.toast = ToastFailed, !.sendingAlert = FALSE, !.invoking = FALSE]
  ELSE [page EXCEPT !.alertSent = TRUE, !.toast = ToastSent,
                    !.sendingAlert = FALSE, !.invoking = FALSE]

\* the function has answered; the page resumes
InvokeResolves ==
  /\ sosPage.invoking
  /\ sos_response # NoResponse
  /\ sosPage' = AfterInvoke(sosPage, sos_response)
  /\ UNCHANGED <<predictVars, sosVars, dashboard, hook, geolocation>>

\* the invocation never reaches the function: invoke returns an error
InvokeFails ==
  /\ sosPage.invoking
  /\ sos_request = NoSosRequest
  /\ sosPage' = AfterInvoke(sosPage, ErrorResponse(0, "Failed to send a request"))
  /\ UNCHANGED <<predictVars, sosVars, dashboard, hook, geolocation>>

\* setTimeout(() => setAlertSent(false), 5000)
ResetAlert ==
  /\ sosPage.alertSent
  /\ sosPage' = [sosPage EXCEPT !.alertSent = FALSE]
  /\ UNCHANGED <<predictVars, sosVars, dashboard, hook, geolocation>>

\* the client before any of its components has acted
ClientIdle ==
  /\ dashboard = NoDashboard
  /\ hook = UseLocation(FALSE)
  /\ geolocation = NoWatches
  /\ sosPage = SosPage(<<>>)

(***************************************************************************)
(* Input sets.                                                             *)
(***************************************************************************)
Unidentified ==
  {[authHeader |-> h, hour |-> 7, day |-> 1, currentLabel |-> Null]
     : h \in {NoHeader, "Bearer expired"}}

SysPositions == {[latitude |-> 4000000, longitude |-> -7400000]}

SysClock == {[day |-> 1, hour |-> 8]}

SysLabels == {L_home_padded}

SysRequests ==
  Unidentified
    \cup {[authHeader |-> h, hour |-> 7, day |-> 1, currentLabel |-> c]
            : h \in {"Bearer t-u1", "Bearer t-u2"}, c \in {Null, L_Home}}

\* rows the table can hold: the label column is free text and the insert
\* policy lets a signed-in client write any row of its own
Samples ==
  { [user_id |-> "u1", latitude |-> 4000000, longitude |-> -7400000,
     day |-> 1, hour |-> 8, label |-> L_Home],
    [user_id |-> "u1", latitude |-> 4000200, longitude |-> -7400000,
     day |-> 2, hour |-> 8, label |-> L_home_padded],
    [user_id |-> "u1", latitude |-> 4001000, longitude |-> -7401000,
     day |-> 1, hour |-> 9, label |-> L_office],
    [user_id |-> "u1", latitude |-> 4002000, longitude |-> -7402000,
     day |-> 1, hour |-> 23, label |-> L_seven],
    [user_id |-> "u1", latitude |-> 4003000, longitude |-> -7403000,
     day |-> 1, hour |-> 0, label |-> L_blank],
    [user_id |-> "u1", latitude |-> 4000001, longitude |-> -7400000,
     day |-> 1, hour |-> 8, label |-> Null] }

Requests ==
  Unidentified
    \cup {[authHeader |-> "Bearer t-u2", hour |-> 7, day |-> 1, currentLabel |-> Null]}
    \cup {[authHeader |-> "Bearer t-u1", hour |-> h, day |-> 1, currentLabel |-> c]
            : h \in {7, 23}, c \in {Null, L_HOME_padded, L_blank}}

(***************************************************************************)
(* Spec: the tables start empty; the client logs locations and calls       *)
(* predict-location.                                                       *)
(***************************************************************************)
Init ==
  /\ location_logs = <<>>
  /\ predictions = <<>>
  /\ request = [authHeader |-> NoHeader, hour |-> 0, day |-> 0, currentLabel |-> Null]
  /\ fetched = <<>>
  /\ response = NoResponse
  /\ io = <<>>
  /\ tiersRun = <<>>
  /\ nCalls = 0
  /\ SosIdle
  /\ NoneInFlight
  /\ ClientIdle

LogLabeled ==
  \E u \in Users, l \in SysLabels, p \in SysPositions, t \in SysClock :
    LogCurrentLocation(u, l, p, t)

Track ==
  \E u \in Users, p \in SysPositions, t \in SysClock : SaveLocationToDb(u, p, t)

PredictLocation ==
  /\ nCalls < MaxCalls
  /\ \E req \in SysRequests : Handler(req)

Next == LogLabeled \/ Track \/ PredictLocation

Spec == Init /\ [][Next]_vars

(***************************************************************************)
(* SpecPredict: the handler applied once to every table content within     *)
(* the bounds.                                                             *)
(***************************************************************************)
InitPredict ==
  /\ location_logs \in UNION {[1..n -> Samples] : n \in 0..MaxLogs}
  /\ predictions = <<>>
  /\ request = [authHeader |-> NoHeader, hour |-> 0, day |-> 0, currentLabel |-> Null]
  /\ fetched = <<>>
  /\ response = NoResponse
  /\ io = <<>>
  /\ tiersRun = <<>>
  /\ nCalls = 0
  /\ SosIdle
  /\ NoneInFlight
  /\ ClientIdle

ApplyPredict ==
  /\ nCalls = 0
  /\ \E req \in Requests : Handler(req)

NextPredict == ApplyPredict

SpecPredict == InitPredict /\ [][NextPredict]_vars

(***************************************************************************)
(* SpecShared: the table holds rows of two users in any order; the handler *)
(* is applied once, for either user.                                       *)
(***************************************************************************)
SharedSamples ==
  { [user_id |-> "u1", latitude |-> 4000000, longitude |-> -7400000,
     day |-> 1, hour |-> 8, label |-> L_Home],
    [user_id |-> "u1", latitude |-> 4001000, longitude |-> -7401000,
     day |-> 1, hour |-> 9, label |-> Null],
    [user_id |-> "u2", latitude |-> 5100000, longitude |-> -10000,
     day |-> 1, hour |-> 8, label |-> L_Home],
    [user_id |-> "u2", latitude |-> 5101000, longitude |-> -11000,
     day |-> 1, hour |-> 9, label |-> L_office] }

InitShared ==
  /\ location_logs \in UNION {[1..n -> SharedSamples] : n \in 0..MaxShared}
  /\ predictions = <<>>
  /\ request = [authHeader |-> NoHeader, hour |-> 0, day |-> 0, currentLabel |-> Null]
  /\ fetched = <<>>
  /\ response = NoResponse
  /\ io = <<>>
  /\ tiersRun = <<>>
  /\ nCalls = 0
  /\ SosIdle
  /\ NoneInFlight
  /\ ClientIdle

ApplyShared ==
  /\ nCalls = 0
  /\ \E req \in SysRequests : Handler(req)

NextShared == ApplyShared

SpecShared == InitShared /\ [][NextShared]_vars

(***************************************************************************)
(* SpecConcurrent: up to MaxInflight requests in flight over a table of    *)
(* one user's samples.                                                     *)
(***************************************************************************)
ConcurrentRequests ==
  {[authHeader |-> NoHeader, hour |-> 7, day |-> 1, currentLabel |-> Null]}
    \cup {[authHeader |-> "Bearer t-u1", hour |-> 7, day |-> 1, currentLabel |-> c]
            : c \in {Null, L_Home}}

InitConcurrent ==
  /\ location_logs \in {[i \in 1..n |->
                           [user_id |-> "u1", latitude |-> 4000000, longitude |-> -7400000,
                            day |-> 1, hour |-> 8, label |-> L_Home]] : n \in 0..MaxStored}
  /\ predictions = <<>>
  /\ request = [authHeader |-> NoHeader, hour |-> 0, day |-> 0, currentLabel |-> Null]
  /\ fetched = <<>>
  /\ response = NoResponse
  /\ io = <<>>
  /\ tiersRun = <<>>
  /\ nCalls = 0
  /\ SosIdle
  /\ NoneInFlight
  /\ ClientIdle

Arrive == \E c \in CallIds, req \in ConcurrentRequests : Receive(c, req)

StoreSelects == \E c \in CallIds, ok \in BOOLEAN : SelectAnswers(c, ok)

StoreInserts == \E c \in CallIds, outcome \in InsertOutcomes : InsertAnswers(c, outcome)

NextConcurrent == Arrive \/ StoreSelects \/ StoreInserts

SpecConcurrent == InitConcurrent /\ [][NextConcurrent]_vars

(***************************************************************************)
(* SpecLimit: a user with about QueryLimit samples: at least MinLabeled    *)
(* labeled ones first, then unlabeled ones, then labeled ones again; the   *)
(* handler is applied once.                                                *)
(***************************************************************************)
OldSample ==
  [user_id |-> "u1", latitude |-> 100, longitude |-> -100, day |-> 1, hour |-> 8,
   label |-> L_Home]

PlainSample ==
  [user_id |-> "u1", latitude |-> 200, longitude |-> -200, day |-> 2, hour |-> 9,
   label |-> Null]

NewSample ==
  [user_id |-> "u1", latitude |-> 300, longitude |-> -300, day |-> 3, hour |-> 10,
   label |-> L_office]

InitLimit ==
  /\ location_logs \in {[i \in 1..n |-> IF i <= k THEN OldSample
                                         ELSE IF i <= n - j THEN PlainSample
                                         ELSE NewSample]
                          : n \in (QueryLimit - 1)..(QueryLimit + MaxExcess),
                            k \in MinLabeled..MaxOld, j \in 0..MaxNew}
  /\ predictions = <<>>
  /\ request = [authHeader |-> NoHeader, hour |-> 0, day |-> 0, currentLabel |-> Null]
  /\ fetched = <<>>
  /\ response = NoResponse
  /\ io = <<>>
  /\ tiersRun = <<>>
  /\ nCalls = 0
  /\ SosIdle
  /\ NoneInFlight
  /\ ClientIdle

ApplyLimit ==
  /\ nCalls = 0
  /\ \E req \in SysRequests : Handler(req)

NextLimit == ApplyLimit

SpecLimit == InitLimit /\ [][NextLimit]_vars

(***************************************************************************)
(* SpecDashboard: the table holds samples of one user at points that are   *)
(* equal, near on both axes, near on one axis, exactly the threshold       *)
(* apart, or far; the dashboard is rendered.                               *)
(***************************************************************************)
PointAt(dlat, dlng) ==
  [user_id |-> "u1", latitude |-> 4000000 + dlat, longitude |-> -7400000 + dlng,
   day |-> 1, hour |-> 8, label |-> Null]

Points ==
  { PointAt(0, 0), PointAt(60, 0), PointAt(120, 0), PointAt(0, 100),
    PointAt(60, 5000), PointAt(5000, 5000) }

InitDashboard ==
  /\ location_logs \in UNION {[1..n -> Points] : n \in 0..MaxPoints}
  /\ predictions = <<>>
  /\ request = [authHeader |-> NoHeader, hour |-> 0, day |-> 0, currentLabel |-> Null]
  /\ fetched = <<>>
  /\ response = NoResponse
  /\ io = <<>>
  /\ tiersRun = <<>>
  /\ nCalls = 0
  /\ SosIdle
  /\ NoneInFlight
  /\ ClientIdle

OpenDashboard == \E u \in Users : RenderDashboard(u)

NextDashboard == OpenDashboard

SpecDashboard == InitDashboard /\ [][NextDashboard]_vars

(***************************************************************************)
(* SpecSos: one alert dispatch with every contact list within the bound,   *)
(* the provider answering the requests in any order.                       *)
(***************************************************************************)
E_a == <<"a","@","x">>

E_b == <<"b","@","x">>

Contacts ==
  { [name |-> "Ann", email |-> E_a], [name |-> "Bob", email |-> E_b],
    [name |-> "Cy", email |-> <<>>], [name |-> "Di", email |-> Null] }

SosRequests ==
  {[apiKey |-> k, contactsGiven |-> TRUE, contacts |-> c]
     : k \in BOOLEAN, c \in UNION {[1..n -> Contacts] : n \in 0..MaxContacts}}
    \cup {[apiKey |-> TRUE, contactsGiven |-> FALSE, contacts |-> <<>>]}

Dispatch == \E req \in SosRequests : SendSos(req)

Provider == \E i \in 1..MaxContacts, outcome \in FetchOutcomes : FetchSettles(i, outcome)

NextSos == Dispatch \/ Provider

SpecSos == Init /\ [][NextSos]_vars

(***************************************************************************)
(* SpecTracking: the map's tracking button is tapped, registrations        *)
(* resolve or fail, and registered watches report positions, on the native *)
(* platform and in the browser.                                            *)
(***************************************************************************)
InitTracking ==
  /\ location_logs = <<>>
  /\ predictions = <<>>
  /\ request = [authHeader |-> NoHeader, hour |-> 0, day |-> 0, currentLabel |-> Null]
  /\ fetched = <<>>
  /\ response = NoResponse
  /\ io = <<>>
  /\ tiersRun = <<>>
  /\ nCalls = 0
  /\ SosIdle
  /\ NoneInFlight
  /\ dashboard = NoDashboard
  /\ hook \in {UseLocation(native) : native \in BOOLEAN}
  /\ geolocation = NoWatches
  /\ sosPage = SosPage(<<>>)

Tap == ToggleTracking

Registers == WatchRegistered

Refuses == RegistrationFails

Reports == \E p \in SysPositions, t \in SysClock : PositionReported("u1", p, t)

NextTracking == Tap \/ Registers \/ Refuses \/ Reports

SpecTracking == InitTracking /\ [][NextTracking]_vars

(***************************************************************************)
(* SpecSosPage: the SOS page with every contact list within the bound; the *)
(* alert is sent once, the function and the provider answer.               *)
(***************************************************************************)
PageContacts == {c \in Contacts : c.email # <<>>}

InitSosPage ==
  /\ location_logs = <<>>
  /\ predictions = <<>>
  /\ request = [authHeader |-> NoHeader, hour |-> 0, day |-> 0, currentLabel |-> Null]
  /\ fetched = <<>>
  /\ response = NoResponse
  /\ io = <<>>
  /\ tiersRun = <<>>
  /\ nCalls = 0
  /\ SosIdle
  /\ NoneInFlight
  /\ dashboard = NoDashboard
  /\ hook = UseLocation(FALSE)
  /\ geolocation = NoWatches
  /\ sosPage \in {SosPage(c) : c \in UNION {[1..n -> PageContacts] : n \in 0..MaxContacts}}

Alert == SendSOSAlert

Arrives == \E k \in BOOLEAN : InvokeArrives(k)

Resolves == InvokeResolves

Unreachable == InvokeFails

Resets == ResetAlert

NextSosPage == Alert \/ Arrives \/ Provider \/ Resolves \/ Unreachable \/ Resets

SpecSosPage == InitSosPage /\ [][NextSosPage]_vars

(***************************************************************************)
(* Properties of the handler.                                              *)
(***************************************************************************)
Called == nCalls' = nCalls + 1

TokenOf(u) == IF u = "u1" THEN "Bearer t-u1" ELSE "Bearer t-u2"

OwnCount(u) == Cardinality({i \in 1..Len(location_logs) : location_logs[i].user_id = u})

Issued(calls, op) == \E i \in 1..Len(calls) : calls[i][1] = op

Answered(calls, op, outcome) == \E i \in 1..Len(calls) : calls[i] = <<op, outcome>>

Served == response.status = 200

\* C1: a call by an identified user whose select returns fewer than 3 rows
\* (0 included) is answered 400 "Not enough location data" with dataPoints
\* the number of rows, and it writes nothing to predictions.
C1_InsufficientData ==
  [][\A u \in Users :
       (/\ Called
        /\ request'.authHeader = TokenOf(u)
        /\ Answered(io', "location_logs.select", "ok")
        /\ OwnCount(u) < 3)
       => /\ response'.status = 400
          /\ response'.body.error = "Not enough location data"
          /\ response'.body.dataPoints = OwnCount(u)
          /\ ~Issued(io', "predictions.insert")
          /\ predictions' = predictions]_vars

C1_Witness ==
  /\ response.status = 400
  /\ response.body.dataPoints = 2
  /\ request.authHeader = "Bearer t-u1"
  /\ OwnCount("u1") = 2
  /\ OwnCount("u2") = 1

\* C2: a call without Authorization header, or with a token the auth service
\* rejects, is answered 401; it reads no samples and writes no prediction.
C2_Unauthenticated ==
  [][(Called /\ request'.authHeader \in {NoHeader, "Bearer expired"})
       => /\ response'.status = 401
          /\ ~Issued(io', "location_logs.select")
          /\ ~Issued(io', "predictions.insert")
          /\ fetched' = <<>>
          /\ predictions' = predictions]_vars

C2_Witness ==
  /\ response.status = 401
  /\ request.authHeader = "Bearer expired"
  /\ OwnCount("u1") = 3
  /\ Len(predictions) = 1

\* C3 as stated: every call answered without error appends exactly one row.
C3_EveryServedCallAppends ==
  [][(Called /\ response'.status = 200)
       => /\ Len(predictions') = Len(predictions) + 1
          /\ SubSeq(predictions', 1, Len(predictions)) = predictions]_vars

\* C3 amended: a call answered without error appends exactly one row, for
\* the caller and carrying the returned prediction, when the store accepts
\* the insert, and none when the store reports an error; no step overwrites,
\* merges or removes a stored row.
C3_AppendOnly ==
  [][/\ Len(predictions') >= Len(predictions)
     /\ SubSeq(predictions', 1, Len(predictions)) = predictions
     /\ (Called /\ response'.status = 200 /\ Answered(io', "predictions.insert", "ok"))
          => /\ Len(predictions') = Len(predictions) + 1
             /\ \E u \in Users :
                  /\ request'.authHeader = TokenOf(u)
                  /\ predictions'[Len(predictions')].user_id = u
             /\ predictions'[Len(predictions')].label = response'.body.prediction.label
             /\ predictions'[Len(predictions')].confidence
                  = response'.body.prediction.confidence
     /\ (Called /\ ~Answered(io', "predictions.insert", "ok"))
          => predictions' = predictions
     /\ ~Called => predictions' = predictions]_vars

\* two equal predictions for the same user are both kept
C3_Witness ==
  /\ nCalls = 2
  /\ Len(predictions) = 2
  /\ predictions[1] = predictions[2]
  /\ Served

(***************************************************************************)
(* The fetched history as the claims describe it.                          *)
(***************************************************************************)
Lab == LabeledLogs(fetched)

LabelAware == Served /\ Len(Lab) >= 2

Answer == response.body.prediction

\* the tier whose assignments came last
LastTier == tiersRun[Len(tiersRun)]

\* positions of labeled samples followed by another labeled sample
OutgoingOf(k) == {i \in 1..(Len(Lab) - 1) : Normalize(Lab[i].label) = k}

TargetsOf(k) == {Normalize(Lab[i + 1].label) : i \in OutgoingOf(k)}

CountTo(k, t) == Cardinality({i \in OutgoingOf(k) : Normalize(Lab[i + 1].label) = t})

FirstSeen(k, t) ==
  CHOOSE i \in OutgoingOf(k) :
    /\ Normalize(Lab[i + 1].label) = t
    /\ \A j \in OutgoingOf(k) : Normalize(Lab[j + 1].label) = t => i <= j

\* the most frequent target, the earliest seen among equals
BestTarget(k) ==
  CHOOSE t \in TargetsOf(k) :
    \A t2 \in TargetsOf(k) :
      \/ CountTo(k, t) > CountTo(k, t2)
      \/ CountTo(k, t) = CountTo(k, t2) /\ FirstSeen(k, t) <= FirstSeen(k, t2)

CurrentKey == Normalize(request.currentLabel)

Tier1Applies == Truthy(request.currentLabel) /\ OutgoingOf(CurrentKey) # {}

Candidates ==
  LET next == (request.hour + 1) % 24
  IN  {i \in 1..Len(Lab) :
         /\ Lab[i].day = request.day
         /\ Lab[i].hour \in {next - 1, next, next + 1}}

TallyIn(S, l) == Cardinality({i \in S : Normalize(Lab[i].label) = l})

\* l is a most frequent normalized label among the positions S
PluralityIn(S, l) ==
  /\ TallyIn(S, l) > 0
  /\ \A i \in S : TallyIn(S, l) >= TallyIn(S, Normalize(Lab[i].label))

\* C4: the confidence returned and stored lies in [0, 0.95] and within the
\* cap of the tier that produced it: 0.95 transition, 0.85 time of day,
\* 0.6 global frequency.
C4_ConfidenceCaps ==
  Served =>
    /\ FracLeq(Frac(0, 1), Answer.confidence)
    /\ FracLeq(Answer.confidence, Frac(95, 100))
    /\ Answer.confidence[2] > 0
    /\ LastTier = 1 => FracLeq(Answer.confidence, Frac(95, 100))
    /\ LastTier = 2 => FracLeq(Answer.confidence, Frac(85, 100))
    /\ LastTier = 3 => FracLeq(Answer.confidence, Frac(60, 100))
    /\ \A i \in 1..Len(predictions) : predictions[i].confidence = Answer.confidence

\* the global tier answers with its cap reached and the row is stored
C4_Witness ==
  /\ Served
  /\ LastTier = 3
  /\ FracEq(Answer.confidence, Frac(60, 100))
  /\ Len(predictions) = 1

\* C5 as stated: when the insert reports an error or throws, the call is
\* still answered with the computed prediction.
C5_WriteFailureStillServed ==
  (Answered(io, "predictions.insert", "error") \/ Answered(io, "predictions.insert", "throws"))
    => Served

\* C6 as stated: with at least 2 labeled samples and a current label that
\* has outgoing transitions, the answer is the most frequent target, the
\* earliest seen among equals, with confidence min(0.95, count / outgoing).
C6_TransitionTier ==
  (LabelAware /\ Tier1Applies) =>
    /\ Answer.label = BestTarget(CurrentKey)
    /\ FracEq(Answer.confidence,
              MathMin(Frac(95, 100),
                      Frac(CountTo(CurrentKey, BestTarget(CurrentKey)),
                           Cardinality(OutgoingOf(CurrentKey)))))

\* C7 as stated: when tier 1 yields nothing and some labeled sample of the
\* current day lies within an hour of the next hour, the answer is a
\* plurality label of those samples, with confidence min(0.85, count / size)
\* and basedOnDataPoints the size.
C7_TimeOfDayTier ==
  (LabelAware /\ ~Tier1Applies /\ Candidates # {}) =>
    /\ PluralityIn(Candidates, Answer.label)
    /\ FracEq(Answer.confidence,
              MathMin(Frac(85, 100),
                      Frac(TallyIn(Candidates, Answer.label), Cardinality(Candidates))))
    /\ Answer.basedOnDataPoints = Cardinality(Candidates)

\* C8 as stated: when neither tier 1 nor tier 2 yields a label, the answer
\* is a most frequent label of all labeled samples, with confidence
\* min(0.6, count / labeled) and basedOnDataPoints the labeled count.
C8_GlobalTier ==
  (LabelAware /\ ~Tier1Applies /\ Candidates = {}) =>
    /\ PluralityIn(1..Len(Lab), Answer.label)
    /\ FracEq(Answer.confidence,
              MathMin(Frac(60, 100),
                      Frac(TallyIn(1..Len(Lab), Answer.label), Len(Lab))))
    /\ Answer.basedOnDataPoints = Len(Lab)

\* C9 as stated: exactly one tier assigns the result; it is tier 1 whenever
\* the current label has outgoing transitions, tier 2 only if tier 1 yields
\* nothing, tier 3 only if tier 2 yields nothing as well.
C9_ShortCircuit ==
  LabelAware =>
    /\ Len(tiersRun) = 1
    /\ Tier1Applies => tiersRun = <<1>>
    /\ (~Tier1Applies /\ Candidates # {}) => tiersRun = <<2>>
    /\ (~Tier1Applies /\ Candidates = {}) => tiersRun = <<3>>

L_home == <<"h","o","m","e">>

HomeForms == {L_Home, L_home, L_home_padded, L_HOME_padded}

HomeAt == {i \in 1..Len(Lab) : Lab[i].label \in HomeForms}

HomeOutgoing == {i \in HomeAt : i < Len(Lab)}

RECURSIVE SumCounts(_)
SumCounts(entries) ==
  IF entries = <<>> THEN 0 ELSE Head(entries).count + SumCounts(Tail(entries))

\* C10: normalization is idempotent, and the samples labeled "Home", "home",
\* " home " or "HOME " share one transition-model node, one label-location
\* accumulator and one frequency tally, all keyed "home"; a current label in
\* any of these forms selects that node.
C10_Normalization ==
  /\ \A i \in 1..Len(Lab) :
       Normalize(Normalize(Lab[i].label)) = Normalize(Lab[i].label)
  /\ LabelAware =>
       LET m == BuildModel(Lab)
           tally == CountLabels(Lab, EmptyObj)
       IN  /\ \A f \in HomeForms \ {L_home} :
                /\ ~Has(m.labelLocations, f)
                /\ ~Has(m.transitions, f)
                /\ ~Has(tally, f)
                /\ \A i \in 1..Len(response.body.availableLabels) :
                     response.body.availableLabels[i] # f
           /\ HomeAt # {} =>
                /\ m.labelLocations.map[L_home].count = Cardinality(HomeAt)
                /\ tally.map[L_home] = Cardinality(HomeAt)
                /\ \E i \in 1..Len(response.body.availableLabels) :
                     response.body.availableLabels[i] = L_home
           /\ HomeOutgoing # {} =>
                /\ Has(m.transitions, L_home)
                /\ SumValues(m.transitions.map[L_home], m.transitions.map[L_home].order)
                     = Cardinality(HomeOutgoing)
                /\ \A f \in HomeForms :
                     Tier1(StartLocals, m.transitions, f).transitionCount
                       = Cardinality(HomeOutgoing)
                /\ request.currentLabel \in HomeForms =>
                     /\ tiersRun[1] = 1
                     /\ SumCounts(response.body.transitions) = Cardinality(HomeOutgoing)
           /\ (HomeOutgoing = {} /\ request.currentLabel \in HomeForms) =>
                response.body.transitions = <<>>

\* "Home" and " home " are both stored and the call names "HOME "
C10_Witness ==
  /\ LabelAware
  /\ request.currentLabel = L_HOME_padded
  /\ \E i \in HomeOutgoing : Lab[i].label = L_Home
  /\ \E i \in HomeOutgoing : Lab[i].label = L_home_padded
  /\ SumCounts(response.body.transitions) = 2

(***************************************************************************)
(* The predicted coordinate and the transition model.                      *)
(***************************************************************************)
\* positions of the labeled samples whose normalized label is l
SameLabel(l) == {i \in 1..Len(Lab) : Normalize(Lab[i].label) = l}

RECURSIVE SumLatitude(_)
SumLatitude(S) ==
  IF S = {} THEN 0
  ELSE LET i == CHOOSE j \in S : TRUE
       IN  Lab[i].latitude + SumLatitude(S \ {i})

RECURSIVE SumLongitude(_)
SumLongitude(S) ==
  IF S = {} THEN 0
  ELSE LET i == CHOOSE j \in S : TRUE
       IN  Lab[i].longitude + SumLongitude(S \ {i})

\* C11 as stated: on the label-aware path the answer names a label carried
\* by some fetched sample, and its coordinate is the mean latitude and the
\* mean longitude of all fetched samples whose normalized label is that one.
C11_MeanCoordinate ==
  LabelAware =>
    /\ SameLabel(Answer.label) # {}
    /\ FracEq(Answer.latitude,
              Frac(SumLatitude(SameLabel(Answer.label)),
                   Cardinality(SameLabel(Answer.label))))
    /\ FracEq(Answer.longitude,
              Frac(SumLongitude(SameLabel(Answer.label)),
                   Cardinality(SameLabel(Answer.label))))

\* positions of the fetched samples that carry a label
LabeledAt == {i \in 1..Len(fetched) : fetched[i].label # Null /\ fetched[i].label # <<>>}

HasSuccessor(i) == \E j \in LabeledAt : j > i

\* the next labeled sample after position i, unlabeled ones skipped
Successor(i) == CHOOSE j \in LabeledAt : j > i /\ \A k \in LabeledAt : k > i => j <= k

RECURSIVE SumRows(_, _)
SumRows(transitions, keys) ==
  IF keys = <<>> THEN 0
  ELSE SumValues(transitions.map[Head(keys)], transitions.map[Head(keys)].order)
         + SumRows(transitions, Tail(keys))

\* the normalized labels, by position
KeyAt == [i \in 1..Len(fetched) |-> Normalize(fetched[i].label)]

\* the next labeled position, by labeled position (0: none)
Next_labeled == [i \in LabeledAt |-> IF HasSuccessor(i) THEN Successor(i) ELSE 0]

\* C12: the transition model holds, for every pair of labels, the number of
\* labeled samples with the first label whose next labeled sample (unlabeled
\* ones skipped) has the second; the outgoing total of a label is the number
\* of its samples followed by a labeled sample, and all counts sum to the
\* number of labeled samples minus one.
C12_TransitionCounts ==
  LabelAware =>
    LET transitions == BuildModel(LabeledLogs(fetched)).transitions
        key == KeyAt
        succ == Next_labeled
        keys == {key[i] : i \in LabeledAt}
        followed(a) == {i \in LabeledAt : key[i] = a /\ succ[i] # 0}
        pairs(a, b) == {i \in LabeledAt : key[i] = a /\ succ[i] # 0 /\ key[succ[i]] = b}
    IN  /\ \A a \in keys :
             /\ Has(transitions, a) <=> followed(a) # {}
             /\ Has(transitions, a) =>
                  /\ SumValues(transitions.map[a], transitions.map[a].order)
                       = Cardinality(followed(a))
                  /\ \A b \in keys :
                       /\ Has(transitions.map[a], b) <=> pairs(a, b) # {}
                       /\ Has(transitions.map[a], b) =>
                            transitions.map[a].map[b] = Cardinality(pairs(a, b))
        /\ \A i \in 1..Len(transitions.order) : transitions.order[i] \in keys
        /\ SumRows(transitions, transitions.order) = Cardinality(LabeledAt) - 1
        /\ (Truthy(request.currentLabel) /\ followed(CurrentKey) # {}) =>
             SumCounts(response.body.transitions) = Cardinality(followed(CurrentKey))

\* two labeled samples separated by an unlabeled one, and a pair seen twice
C12_Witness ==
  /\ LabelAware
  /\ \E i \in LabeledAt : HasSuccessor(i) /\ Successor(i) > i + 1
  /\ \E i \in LabeledAt, j \in LabeledAt :
       /\ i < j /\ HasSuccessor(j)
       /\ KeyAt[i] = KeyAt[j] /\ KeyAt[Successor(i)] = KeyAt[Successor(j)]
  /\ Truthy(request.currentLabel)
  /\ \E i \in LabeledAt : HasSuccessor(i) /\ KeyAt[i] = CurrentKey

(***************************************************************************)
(* Properties of the send-sos function.                                    *)
(***************************************************************************)
Dispatched == sos_request # NoSosRequest

\* positions of the contacts with a non-empty email
Qualifying ==
  {i \in 1..Len(sos_request.contacts) :
     sos_request.contacts[i].email # Null /\ sos_request.contacts[i].email # <<>>}

\* the k-th contact with a non-empty email
QualifyingContact(k) ==
  sos_request.contacts[CHOOSE i \in Qualifying : Cardinality({j \in Qualifying : j < i}) = k - 1]

Configured == Dispatched /\ sos_request.apiKey

\* C13: a configured dispatch with at least one email-bearing contact issues
\* exactly one notification per contact with a non-empty email, addressed to
\* it, and in no dispatch is a notification addressed to a contact without
\* email; the aggregate response reports total = the number of email-bearing
\* contacts, one results entry per email-bearing contact, and sent = the
\* number of entries with success = true.
C13_OnePerEmailContact ==
  /\ \A j \in 1..Len(outbox) :
       /\ Len(outbox[j].to) = 1
       /\ outbox[j].to[1] # Null /\ outbox[j].to[1] # <<>>
  /\ Len(outbox) \in {0, Cardinality(Qualifying)}
  /\ (Configured /\ Qualifying # {}) =>
       /\ Len(outbox) = Cardinality(Qualifying)
       /\ \A k \in 1..Len(outbox) : outbox[k].to = <<QualifyingContact(k).email>>
  /\ sos_response.status = 200 =>
       /\ sos_response.body.success
       /\ sos_response.body.total = Cardinality(Qualifying)
       /\ Len(sos_response.body.results) = Cardinality(Qualifying)
       /\ \A k \in 1..Cardinality(Qualifying) :
            sos_response.body.results[k].email = QualifyingContact(k).email
       /\ sos_response.body.sent
            = Cardinality({k \in 1..Len(sos_response.body.results) :
                             sos_response.body.results[k].success})

\* contacts a@x, "", b@x: two notifications, total 2, one of them failed
C13_Witness ==
  /\ sos_request.contacts = <<[name |-> "Ann", email |-> E_a], [name |-> "Cy", email |-> <<>>],
                              [name |-> "Bob", email |-> E_b]>>
  /\ Len(outbox) = 2
  /\ sos_response.status = 200
  /\ sos_response.body.total = 2
  /\ sos_response.body.sent = 1

\* C14: a dispatch with a non-empty contact list in which no contact has an
\* email is answered with an error (400 "No contacts with email addresses"
\* when the function is configured) and sends no notification.
C14_NoQualifyingContacts ==
  (Dispatched /\ Len(sos_request.contacts) > 0 /\ Qualifying = {}) =>
    /\ sos_response.status \in {400, 500}
    /\ sos_response.body.error # ""
    /\ sos_request.apiKey =>
         /\ sos_response.status = 400
         /\ sos_response.body.error = "No contacts with email addresses"
    /\ outbox = <<>>
    /\ emailPromises = <<>>

C14_Witness ==
  /\ sos_request.contacts = <<[name |-> "Cy", email |-> <<>>], [name |-> "Di", email |-> Null]>>
  /\ sos_request.apiKey
  /\ sos_response.status = 400
  /\ outbox = <<>>

\* positions of the notifications that failed: the provider refused the
\* request, or the request threw
FailedAt ==
  {i \in 1..Len(emailPromises) :
     \/ emailPromises[i] = Rejected
     \/ emailPromises[i].state = "fulfilled" /\ ~emailPromises[i].value.success}

\* C15 as stated: whatever way a contact's notification failed, the dispatch
\* is answered with the aggregate success response, which holds a failure
\* entry for that contact.
C15_PartialFailure ==
  (sos_response # NoResponse /\ FailedAt # {}) =>
    /\ sos_response.status = 200
    /\ \A i \in FailedAt :
         /\ sos_response.body.results[i].email = QualifyingContact(i).email
         /\ ~sos_response.body.results[i].success

\* C16 as stated: every notification is started before any outcome is
\* awaited, and the dispatch is answered only when the outcome of every
\* notification is known.
C16_JoinAll ==
  /\ Len(outbox) = Len(emailPromises)
  /\ (sos_response # NoResponse /\ outbox # <<>>) =>
       \A i \in 1..Len(emailPromises) : emailPromises[i] # Pending

(***************************************************************************)
(* Scoping of a prediction to the caller.                                  *)
(***************************************************************************)
OwnAt(u) == {i \in 1..Len(location_logs) : location_logs[i].user_id = u}

\* the stored rows of u, oldest first, with the selected columns
OwnRows(u) ==
  LET nth(k) == CHOOSE i \in OwnAt(u) : Cardinality({j \in OwnAt(u) : j < i}) = k - 1
  IN  [k \in 1..Cardinality(OwnAt(u)) |->
         [latitude |-> location_logs[nth(k)].latitude,
          longitude |-> location_logs[nth(k)].longitude,
          hour |-> location_logs[nth(k)].hour, day |-> location_logs[nth(k)].day,
          label |-> location_logs[nth(k)].label]]

\* the body a call of the request computes from the rows of u alone
BodyFrom(rows) ==
  IF Len(LabeledLogs(rows)) >= 2
  THEN SuccessBody(LabelAwarePrediction(rows, request.hour, request.day, request.currentLabel))
  ELSE SuccessBody(TimeBasedPrediction(rows, request.hour, request.day))

\* C17: a call by user u reads the stored samples of u and no others, the
\* row it writes carries the user id u, and its answer is the one computed
\* from the samples of u alone, whatever the other users have stored.
C17_PerUserScope ==
  \A u \in Users :
    (nCalls = 1 /\ request.authHeader = TokenOf(u)
       /\ Answered(io, "location_logs.select", "ok")) =>
      /\ fetched = OwnRows(u)
      /\ \A i \in 1..Len(predictions) : predictions[i].user_id = u
      /\ Len(OwnRows(u)) < 3 =>
           /\ response.status = 400
           /\ response.body.dataPoints = Len(OwnRows(u))
      /\ Len(OwnRows(u)) >= 3 =>
           /\ response.status \in {200, 500}
           /\ Served => response.body = BodyFrom(OwnRows(u))
           /\ Answered(io, "predictions.insert", "ok") =>
                predictions = <<PredictionRow(u, BodyFrom(OwnRows(u)).prediction)>>

\* u1 is served while labeled rows of u2 lie between its own
C17_Witness ==
  /\ Served
  /\ request.authHeader = "Bearer t-u1"
  /\ Len(predictions) = 1
  /\ Cardinality(OwnAt("u1")) = 3
  /\ Cardinality(OwnAt("u2")) = 2
  /\ \E i \in OwnAt("u2") : \E j \in OwnAt("u1"), k \in OwnAt("u1") : j < i /\ i < k

(***************************************************************************)
(* Concurrent requests.                                                    *)
(***************************************************************************)
\* the executions that got past the sample threshold and have responded
Computed == {c \in CallIds : inflight[c].pc = "done" /\ inflight[c].inserted # "none"}

Accepted == {c \in Computed : inflight[c].inserted = "ok"}

\* the body and the row of execution c, computed from the samples it read
BodyOf(c) ==
  IF Len(LabeledLogs(inflight[c].locationLogs)) >= 2
  THEN SuccessBody(LabelAwarePrediction(inflight[c].locationLogs, inflight[c].req.hour,
                                        inflight[c].req.day, inflight[c].req.currentLabel))
  ELSE SuccessBody(TimeBasedPrediction(inflight[c].locationLogs, inflight[c].req.hour,
                                       inflight[c].req.day))

RowOf(c) == PredictionRow("u1", BodyOf(c).prediction)

\* every execution in S has a stored row of its own
EachHasItsRow(S) ==
  \E f \in [S -> 1..Len(predictions)] :
    /\ \A c \in S : predictions[f[c]] = RowOf(c)
    /\ \A c \in S, d \in S : c # d => f[c] # f[d]

C19_MostRecent ==
  (nCalls = 1 /\ request.authHeader = "Bearer t-u1"
     /\ Answered(io, "location_logs.select", "ok")) =>
    LET mine == SelectSeq(location_logs, LAMBDA r : r.user_id = "u1")
        own == [i \in 1..Len(mine) |->
                  [latitude |-> mine[i].latitude, longitude |-> mine[i].longitude,
                   hour |-> mine[i].hour, day |-> mine[i].day, label |-> mine[i].label]]
    IN  fetched = IF Len(own) <= 1000 THEN own
                  ELSE SubSeq(own, Len(own) - 999, Len(own))

(***************************************************************************)
(* The coordinate-only path.                                               *)
(***************************************************************************)
CoordinateOnly == Served /\ Len(Lab) < 2

\* the samples of the hour that lies o hours after the current one, the day
\* advanced when the hour wraps past 23
HourGroup(o) ==
  {i \in 1..Len(fetched) :
     /\ fetched[i].hour = (request.hour + o) % 24
     /\ fetched[i].day = IF request.hour + o > 23 THEN (request.day + 1) % 7
                         ELSE request.day}

RECURSIVE SumFetched(_, _)
SumFetched(S, lat) ==
  IF S = {} THEN 0
  ELSE LET i == CHOOSE j \in S : TRUE
       IN  (IF lat THEN fetched[i].latitude ELSE fetched[i].longitude)
             + SumFetched(S \ {i}, lat)

\* C20 as stated: when one of the next 3 hours has samples, the answer is
\* the centroid of an hour-group with the highest sample count among them,
\* with confidence min(0.95, (count / total) * 5 + 0.3).
C20_NextThreeHours ==
  (CoordinateOnly /\ \E o \in 1..3 : HourGroup(o) # {}) =>
    \E o \in 1..3 :
      /\ HourGroup(o) # {}
      /\ \A o2 \in 1..3 : Cardinality(HourGroup(o)) >= Cardinality(HourGroup(o2))
      /\ FracEq(Answer.latitude,
                Frac(SumFetched(HourGroup(o), TRUE), Cardinality(HourGroup(o))))
      /\ FracEq(Answer.longitude,
                Frac(SumFetched(HourGroup(o), FALSE), Cardinality(HourGroup(o))))
      /\ FracEq(Answer.confidence,
                MathMin(Frac(95, 100),
                        Frac(50 * Cardinality(HourGroup(o)) + 3 * Len(fetched),
                             10 * Len(fetched))))

(***************************************************************************)
(* The most-visited fallback of the coordinate-only path.                  *)
(***************************************************************************)
\* no fetched sample lies in the slot the coordinate-only path examines
NoSlotSample ==
  \A i \in 1..Len(fetched) :
    ~(fetched[i].day = request.day /\ fetched[i].hour = (request.hour + 1) % 24)

\* a coordinate counted in 0.00001 degree, rounded to 4 decimal places
Rounded4(x) == IF x < 0 THEN -((-x + 5) \div 10) ELSE (x + 5) \div 10

CellOf(i) == <<Rounded4(fetched[i].latitude), Rounded4(fetched[i].longitude)>>

CellMembers(i) == {j \in 1..Len(fetched) : CellOf(j) = CellOf(i)}

\* the first sample of the cell of sample i
CellFirst(i) == CHOOSE j \in CellMembers(i) : \A k \in CellMembers(i) : j <= k

MostFrequentCell(i) ==
  \A j \in 1..Len(fetched) : Cardinality(CellMembers(i)) >= Cardinality(CellMembers(j))

MostVisitedLocation ==
  <<"M","o","s","t"," ","v","i","s","i","t","e","d"," ","l","o","c","a","t","i","o","n">>

TimeBasedRan == tiersRun = <<4>> \/ tiersRun = <<5>>

\* C22 as stated: the time-based path runs only when no fetched sample
\* carries a label; with at least one labeled sample the label-aware path
\* runs, labeledDataPoints is the number of labeled samples and
\* availableLabels lists their distinct normalized labels.
C22_PathSelection ==
  Served =>
    /\ TimeBasedRan => LabeledAt = {}
    /\ LabeledAt # {} =>
         /\ ~TimeBasedRan
         /\ response.body.labeledDataPoints = Cardinality(LabeledAt)
         /\ {response.body.availableLabels[i] : i \in 1..Len(response.body.availableLabels)}
              = {KeyAt[i] : i \in LabeledAt}
         /\ Len(response.body.availableLabels) = Cardinality({KeyAt[i] : i \in LabeledAt})

(***************************************************************************)
(* The sample store.                                                       *)
(***************************************************************************)
\* C23: no step changes or removes a stored sample (the rows present before
\* the step are present after it, in place and unchanged), and a
\* predict-location call leaves location_logs exactly as it was.
C23_SamplesImmutable ==
  [][/\ Len(location_logs') >= Len(location_logs)
     /\ \A i \in 1..Len(location_logs) : location_logs'[i] = location_logs[i]
     /\ Called => location_logs' = location_logs]_vars

\* a labeled and a tracked sample are stored and a prediction was served
C23_Witness ==
  /\ Served
  /\ Len(location_logs) = 3
  /\ \E i \in 1..3 : location_logs[i].label = Null
  /\ \E i \in 1..3 : location_logs[i].label # Null
  /\ \E i \in 1..2 : location_logs[i].label # Null /\ location_logs[i + 1].label = Null

(***************************************************************************)
(* basedOnDataPoints.                                                      *)
(***************************************************************************)
\* the fetched samples of the slot the coordinate-only path examines
SlotSamples ==
  {i \in 1..Len(fetched) :
     fetched[i].day = request.day /\ fetched[i].hour = (request.hour + 1) % 24}

\* C24 as stated: basedOnDataPoints is, when tier 1 answers, the number of
\* transitions from the current label to the predicted label, and on the
\* time-based path the size of the chosen hour-group or coordinate cell.
C24_SupportingCount ==
  /\ (LabelAware /\ tiersRun = <<1>>) =>
       Answer.basedOnDataPoints = CountTo(CurrentKey, Answer.label)
  /\ (CoordinateOnly /\ SlotSamples # {}) =>
       Answer.basedOnDataPoints = Cardinality(SlotSamples)
  /\ (CoordinateOnly /\ SlotSamples = {}) =>
       \E i \in 1..Len(fetched) :
         MostFrequentCell(i) /\ Answer.basedOnDataPoints = Cardinality(CellMembers(i))

(***************************************************************************)
(* The hour window of tier 2.                                              *)
(***************************************************************************)
\* the labeled samples of the current day within an hour of the next hour,
\* on the 24-hour clock
CyclicWindow ==
  LET next == (request.hour + 1) % 24
  IN  {i \in 1..Len(Lab) :
         /\ Lab[i].day = request.day
         /\ Lab[i].hour \in {(next + 23) % 24, next, (next + 1) % 24}}

Tier2Ran == \E k \in 1..Len(tiersRun) : tiersRun[k] = 2

\* C25 as stated: when tier 1 yields nothing, tier 2 answers exactly when
\* some labeled sample lies in the window measured on the 24-hour clock, and
\* it counts the samples of that window.
C25_HourWindow ==
  (LabelAware /\ ~Tier1Applies) =>
    /\ Tier2Ran <=> CyclicWindow # {}
    /\ tiersRun = <<2>> => Answer.basedOnDataPoints = Cardinality(CyclicWindow)

(***************************************************************************)
(* Proximity clustering on the dashboard.                                  *)
(***************************************************************************)
Rendered == dashboard # NoDashboard

Shown == dashboard.locationLogs

\* samples i and j of the rendered list are less than 0.001 degree apart on
\* both axes
Near(i, j) ==
  /\ Abs(Shown[i].latitude - Shown[j].latitude) < 100
  /\ Abs(Shown[i].longitude - Shown[j].longitude) < 100

\* SeedsUpTo[i]: the samples among the first i that are near no earlier seed
SeedsUpTo ==
  LET S[i \in 0..Len(Shown)] ==
        IF i = 0 THEN {}
        ELSE LET earlier == S[i - 1]
             IN  IF \E j \in earlier : Near(j, i) THEN earlier ELSE earlier \cup {i}
  IN  S

Seeds == SeedsUpTo[Len(Shown)]

\* the first seed that sample i is near, i itself when it is a seed
HomeOf(i) == CHOOSE j \in SeedsUpTo[i] : Near(j, i) /\ \A k \in SeedsUpTo[i] : Near(k, i) => j <= k

\* the seed of the k-th cluster
SeedAt(k) == CHOOSE j \in Seeds : Cardinality({m \in Seeds : m < j}) = k - 1

\* the clusters are the seeds in order, each stored at its seed and counting
\* the samples whose first near seed it is
ClustersInOrder ==
  LET u == dashboard.uniqueLocations
      home == [i \in 1..Len(Shown) |-> HomeOf(i)]
      seed == [k \in 1..Cardinality(Seeds) |-> SeedAt(k)]
  IN  /\ Len(u) = Len(seed)
      /\ \A k \in 1..Len(u) :
           /\ u[k].lat = Shown[seed[k]].latitude
           /\ u[k].lng = Shown[seed[k]].longitude
           /\ u[k].count = Cardinality({i \in 1..Len(Shown) : home[i] = seed[k]})

\* the place of the k-th cluster by count descending, earlier clusters first
\* among equal counts
RankOf(k) ==
  LET u == dashboard.uniqueLocations
  IN  1 + Cardinality({j \in 1..Len(u) :
                         \/ u[j].count > u[k].count
                         \/ u[j].count = u[k].count /\ j < k})

\* C26 as stated: clustering in order, the first near cluster absorbing a
\* sample without moving, and the frequent places being the clusters sorted
\* by count descending.
C26_FrequentPlaces ==
  Rendered =>
    /\ ClustersInOrder
    /\ Len(dashboard.frequentLocations) = Len(dashboard.uniqueLocations)
    /\ \A k \in 1..Len(dashboard.uniqueLocations) :
         dashboard.frequentLocations[RankOf(k)] = dashboard.uniqueLocations[k]

\* C26 amended: the frequent places are the first 4 of the clusters sorted by
\* count descending.
C26_FrequentFour ==
  Rendered =>
    /\ ClustersInOrder
    /\ Len(dashboard.frequentLocations) =
         (IF Len(dashboard.uniqueLocations) <= 4 THEN Len(dashboard.uniqueLocations) ELSE 4)
    /\ \A k \in 1..Len(dashboard.uniqueLocations) :
         RankOf(k) <= 4 =>
           dashboard.frequentLocations[RankOf(k)] = dashboard.uniqueLocations[k]

\* a sample near two clusters joined the first, which stayed at its seed, and
\* the sort moved that cluster ahead of an older one
C26_Witness ==
  /\ Rendered
  /\ Len(dashboard.uniqueLocations) = 3
  /\ \E i \in 1..Len(Shown) :
       /\ Cardinality({j \in Seeds : Near(j, i)}) = 2
       /\ Shown[i].latitude # Shown[HomeOf(i)].latitude
       /\ HomeOf(i) = SeedAt(2)
  /\ dashboard.uniqueLocations[2].count = 2
  /\ dashboard.frequentLocations[1] = dashboard.uniqueLocations[2]

\* C27: every sample is counted in exactly one cluster (the counts sum to
\* the number of samples and each is at least 1), and no two clusters are
\* less than 0.001 degree apart on both axes.
C27_Partition ==
  Rendered =>
    LET u == dashboard.uniqueLocations
    IN  /\ SumCounts(u) = Len(Shown)
        /\ \A k \in 1..Len(u) : u[k].count >= 1
        /\ \A j, k \in 1..Len(u) :
             j # k => ~(Abs(u[j].lat - u[k].lat) < 100 /\ Abs(u[j].lng - u[k].lng) < 100)

\* five samples in three clusters, one of them between two clusters
C27_Witness ==
  /\ Rendered
  /\ Len(Shown) = 5
  /\ Len(dashboard.uniqueLocations) = 3
  /\ \E i \in 1..Len(Shown) : Cardinality({j \in Seeds : Near(j, i)}) = 2
  /\ \E k \in 1..3 : dashboard.uniqueLocations[k].count = 3

(***************************************************************************)
(* The placeholder prediction.                                             *)
(***************************************************************************)
Listed == {response.body.availableLabels[i] : i \in 1..Len(response.body.availableLabels)}

\* C28 as stated: on the label-aware path the answer's label is one of
\* availableLabels with that label's mean coordinate, and the placeholder
\* "Unknown" at (0, 0) is neither returned nor stored.
C28_NoPlaceholder ==
  LabelAware =>
    /\ Answer.label \in Listed
    /\ \E l \in Listed :
         /\ l = Answer.label
         /\ SameLabel(l) # {}
         /\ Answer.latitude[1] * Cardinality(SameLabel(l)) = SumLatitude(SameLabel(l)) * Answer.latitude[2]
         /\ Answer.longitude[1] * Cardinality(SameLabel(l)) = SumLongitude(SameLabel(l)) * Answer.longitude[2]
    /\ Answer.label # <<"U","n","k","n","o","w","n">>
    /\ \A k \in 1..Len(predictions) :
         ~(/\ predictions[k].label = <<"U","n","k","n","o","w","n">>
           /\ predictions[k].predicted_lat[1] = 0
           /\ predictions[k].predicted_lng[1] = 0)

(***************************************************************************)
(* Position watches of the tracking hook.                                  *)
(***************************************************************************)
\* C29 as stated: at most one watch is registered, isTracking is true
\* exactly when a watch is registered, and after stopTracking with no later
\* startTracking no watch is registered.
C29_SingleWatch ==
  /\ Cardinality(geolocation.watches) <= 1
  /\ hook.isTracking <=> geolocation.watches # {}
  /\ hook.lastCall = "stop" => geolocation.watches = {}

(***************************************************************************)
(* The "Alert Sent" state of the SOS page.                                 *)
(***************************************************************************)
Delivered == sos_response.status = 200 /\ sos_response.body.sent >= 1

\* C30 as stated: the page is in its "Alert Sent" state and confirms only
\* if some notification was delivered; when the function answered and none
\* was, the page reports failure.
C30_AlertSent ==
  /\ sosPage.alertSent => Delivered
  /\ sosPage.toast = "Emergency alerts sent to all contacts!" => Delivered
  /\ (sos_response # NoResponse /\ ~sosPage.invoking /\ ~Delivered) =>
       sosPage.toast = "Failed to send alerts. Please try again."

====
